---- MODULE Spec2Model ----
(***************************************************************************)
(* A model of the delegate-list handling of ceph-auto-aws ("ho"):          *)
(*   handson/clusters.py  expand_delegate_list, ParseDelegateList,          *)
(*                        Install.validate_delegate_list, Install.run       *)
(*   handson/probe.py     ProbeDelegates.run, ProbePublicIPs.run,           *)
(*                        ProbeSubnets.run                                  *)
(*                                                                         *)
(* Strings are sequences of one-character strings.  A Python value that    *)
(* may be None is a sequence of length 0 (None) or 1 (the value).          *)
(* The code is Python 2 (map() returns a list, len(ti) is taken of it), so  *)
(* the builtins are modelled as CPython 2.7 computes them.                  *)
(***************************************************************************)
EXTENDS Integers, Sequences, FiniteSets, TLC

\* ---------------------------------------------------------------- bounds

\* Longest positional argument string of the Install runs.
MaxLen == 5
\* Longest positional argument string of the probe runs.
MaxProbeLen == 3
\* Largest 'delegates' value the YAML of a probe run holds.
MaxProbeDelegates == 2

\* The characters an argument string is made of: four digits, the two
\* separators and one character that is no digit.
Digits == {"0", "1", "5", "6"}
Alphabet == Digits \cup {",", "-", "x"}

\* All strings over Alphabet of length at most n.
Strings(n) == UNION {[1..k -> Alphabet] : k \in 0..n}

\* ------------------------------------------------------- Python builtins

None == <<>>
Some(x) == <<x>>

\* str.split(sep): the pieces between separators, empty pieces kept; always
\* at least one piece.
RECURSIVE split(_, _)
split(s, sep) ==
  IF \A i \in 1..Len(s) : s[i] # sep
  THEN <<s>>
  ELSE LET i == CHOOSE j \in 1..Len(s) :
                  s[j] = sep /\ \A k \in 1..(j-1) : s[k] # sep
       IN <<SubSeq(s, 1, i-1)>> \o split(SubSeq(s, i+1, Len(s)), sep)

DigitVal(c) ==
  CASE c = "0" -> 0 [] c = "1" -> 1 [] c = "2" -> 2 [] c = "3" -> 3
    [] c = "4" -> 4 [] c = "5" -> 5 [] c = "6" -> 6 [] c = "7" -> 7
    [] c = "8" -> 8 [] c = "9" -> 9

AllDigits == {"0", "1", "2", "3", "4", "5", "6", "7", "8", "9"}

\* int(t) raises ValueError unless t is a non-empty run of decimal digits
\* (the strings of the model hold no whitespace and no '+'; a '-' never
\* reaches int(), the token was split on it).
IsIntLiteral(t) == Len(t) > 0 /\ \A i \in 1..Len(t) : t[i] \in AllDigits

RECURSIVE int(_)
int(t) ==
  IF Len(t) = 1 THEN DigitVal(t[1])
  ELSE 10 * int(SubSeq(t, 1, Len(t)-1)) + DigitVal(t[Len(t)])

\* range(a, b): a, a+1, ..., b-1.
range(a, b) == [i \in 1..(IF b > a THEN b - a ELSE 0) |-> a + i - 1]

\* sorted(l): ascending, duplicates kept.
sorted(l) == SortSeq(l, LAMBDA a, b : a < b)

\* --- set(): CPython 2.7's open-addressing table (Objects/setobject.c).
\* hash(n) = n for the non-negative ints that reach it; an unused slot holds
\* NULL.  The table starts with PySet_MINSIZE slots; mask = slots - 1.
NULL == -1
PySet_MINSIZE == 8
PERTURB_SHIFT == 5

\* The slot set_lookkey / set_insert_clean ends on for key: the first slot of
\* the probe sequence that is unused or already holds key.
RECURSIVE ProbeFrom(_, _, _, _, _)
ProbeFrom(table, mask, key, i, perturb) ==
  IF table[i] = NULL \/ table[i] = key THEN i
  ELSE ProbeFrom(table, mask, key,
                 (5 * i + perturb + 1) % (mask + 1),
                 perturb \div (2 ^ PERTURB_SHIFT))

set_lookkey(table, mask, key) ==
  ProbeFrom(table, mask, key, key % (mask + 1), key)

set_insert_key(table, mask, key) ==
  [table EXCEPT ![set_lookkey(table, mask, key)] = key]

\* The smallest table size > minused.
RECURSIVE NewSize(_, _)
NewSize(newsize, minused) ==
  IF newsize <= minused THEN NewSize(2 * newsize, minused) ELSE newsize

\* The keys of a table in slot order: what iterating the set yields.
TableKeys(table, mask) ==
  LET active == {i \in 0..mask : table[i] # NULL}
      slots  == SortSeq([k \in 1..Cardinality(active) |->
                           CHOOSE i \in active :
                             Cardinality({j \in active : j < i}) = k - 1],
                        LAMBDA a, b : a < b)
  IN [k \in 1..Len(slots) |-> table[slots[k]]]

\* set_insert_key for keys[lo..hi] in turn (halved, to keep the evaluation
\* shallow).
RECURSIVE InsertAll(_, _, _, _, _)
InsertAll(table, mask, keys, lo, hi) ==
  IF lo > hi THEN table
  ELSE IF lo = hi THEN set_insert_key(table, mask, keys[lo])
  ELSE LET mid  == (lo + hi) \div 2
           left == InsertAll(table, mask, keys, lo, mid)
       IN IF DOMAIN left = DOMAIN table   \* left is computed first
          THEN InsertAll(left, mask, keys, mid + 1, hi)
          ELSE left

\* set_table_resize: a fresh table, the old entries re-inserted in slot order.
set_table_resize(so, minused) ==
  LET newsize == NewSize(PySet_MINSIZE, minused)
      fresh   == [i \in 0..(newsize - 1) |-> NULL]
  IN [mask  |-> newsize - 1,
      used  |-> so.used,
      table |-> LET keys == TableKeys(so.table, so.mask)
                IN InsertAll(fresh, newsize - 1, keys, 1, Len(keys))]

\* set_add_key: insert, then grow the table once it is two thirds full.
set_add_key(so, key) ==
  LET t    == set_insert_key(so.table, so.mask, key)
      grew == so.table[set_lookkey(so.table, so.mask, key)] = NULL
      s1   == [mask  |-> so.mask,
               used  |-> so.used + (IF grew THEN 1 ELSE 0),
               table |-> t]
  IN IF grew /\ s1.used * 3 >= (s1.mask + 1) * 2
     THEN set_table_resize(s1, s1.used * 4)
     ELSE s1

\* set_update_internal over l[lo..hi]: set_add_key for each element in turn
\* (halved, to keep the evaluation shallow).
RECURSIVE set_update(_, _, _, _)
set_update(so, l, lo, hi) ==
  IF lo > hi THEN so
  ELSE IF lo = hi THEN set_add_key(so, l[lo])
  ELSE LET mid  == (lo + hi) \div 2
           left == set_update(so, l, lo, mid)
       IN IF left.used >= so.used         \* left is computed first
          THEN set_update(left, l, mid + 1, hi)
          ELSE left

\* list(set(l)): the elements of l, each once, in the table's slot order.
list_of_set(l) ==
  LET empty == [mask  |-> PySet_MINSIZE - 1,
                used  |-> 0,
                table |-> [i \in 0..(PySet_MINSIZE - 1) |-> NULL]]
      so    == set_update(empty, l, 1, Len(l))
  IN TableKeys(so.table, so.mask)

\* ------------------------------------------------- handson/clusters.py

\* error_exit(msg): reports msg and ends the process; no statement after the
\* call runs.
error_exit(msg) == [status |-> "exit", error |-> msg, value |-> None]

\* map(int, t): a list of ints, or ValueError if one part is no int literal.
map_int(t) == [i \in 1..Len(t) |-> int(t[i])]

\* ExpandItem with the pair test written >= : a pair lo-lo passes.
ExpandItem_EqualPair(item) ==
  LET t == split(item, "-")
  IN IF \E i \in 1..Len(t) : ~IsIntLiteral(t[i])
     THEN error_exit("ValueError")
     ELSE LET ti == map_int(t)
          IN IF Len(ti) = 1
             THEN [status |-> "continue", error |-> "", value |-> ti]
             ELSE IF Len(ti) = 2 /\ ti[2] >= ti[1] /\ (ti[2] - ti[1]) < 50
             THEN [status |-> "continue", error |-> "",
                   value |-> range(ti[1], ti[2] + 1)]
             ELSE error_exit("Illegal delegate list")

\* ExpandItem with range(ti[0], ti[1]): the upper end of a pair is left out.
ExpandItem_OpenRange(item) ==
  LET t == split(item, "-")
  IN IF \E i \in 1..Len(t) : ~IsIntLiteral(t[i])
     THEN error_exit("ValueError")
     ELSE LET ti == map_int(t)
          IN IF Len(ti) = 1
             THEN [status |-> "continue", error |-> "", value |-> ti]
             ELSE IF Len(ti) = 2 /\ ti[2] > ti[1] /\ (ti[2] - ti[1]) < 50
             THEN [status |-> "continue", error |-> "",
                   value |-> range(ti[1], ti[2])]
             ELSE error_exit("Illegal delegate list")

\* ExpandItem with an empty item skipped instead of handed to int().
ExpandItem_SkipEmpty(item) ==
  LET t == split(item, "-")
  IN IF item = <<>>
     THEN [status |-> "continue", error |-> "", value |-> <<>>]
     ELSE IF \E i \in 1..Len(t) : ~IsIntLiteral(t[i])
     THEN error_exit("ValueError")
     ELSE LET ti == map_int(t)
          IN IF Len(ti) = 1
             THEN [status |-> "continue", error |-> "", value |-> ti]
             ELSE IF Len(ti) = 2 /\ ti[2] > ti[1] /\ (ti[2] - ti[1]) < 50
             THEN [status |-> "continue", error |-> "",
                   value |-> range(ti[1], ti[2] + 1)]
             ELSE error_exit("Illegal delegate list")

\* What one comma-separated item adds to intermediate_list (lines 49-64):
\* status "continue" with the elements to extend by, or the error_exit.
ExpandItem(item) ==
  LET t == split(item, "-")
  IN IF \E i \in 1..Len(t) : ~IsIntLiteral(t[i])
     THEN error_exit("ValueError")
     ELSE LET ti == map_int(t)
          IN IF Len(ti) = 1
             THEN [status |-> "continue", error |-> "", value |-> ti]
             ELSE IF Len(ti) = 2 /\ ti[2] > ti[1] /\ (ti[2] - ti[1]) < 50
             THEN [status |-> "continue", error |-> "",
                   value |-> range(ti[1], ti[2] + 1)]
             ELSE error_exit("Illegal delegate list")

\* ExpandItems with intermediate_list assigned instead of extended: each
\* item replaces what the items before it gave.
RECURSIVE ExpandItems_Assign(_, _, _)
ExpandItems_Assign(items, k, intermediate_list) ==
  IF k > Len(items)
  THEN [status |-> "continue", error |-> "", value |-> intermediate_list]
  ELSE LET r == ExpandItem(items[k])
       IN IF r.status = "exit" THEN r
          ELSE ExpandItems_Assign(items, k + 1, r.value)

\* The for loop of lines 48-64 from item k on: the finished
\* intermediate_list, or the first error_exit.
RECURSIVE ExpandItems(_, _, _)
ExpandItems(items, k, intermediate_list) ==
  IF k > Len(items)
  THEN [status |-> "continue", error |-> "", value |-> intermediate_list]
  ELSE LET r == ExpandItem(items[k])
       IN IF r.status = "exit" THEN r
          ELSE ExpandItems(items, k + 1, intermediate_list \o r.value)

\* Lines 65-70: final_list and the two limit checks.  Indexing an empty
\* final_list raises IndexError.
CheckLimits(intermediate_list) ==
  LET final_list == list_of_set(sorted(intermediate_list))
  IN IF Len(final_list) = 0
     THEN [status |-> "IndexError", error |-> "", value |-> None]
     ELSE IF final_list[1] < 1
     THEN error_exit("detected too-low delegate (min. 1)")
     ELSE IF final_list[Len(final_list)] > 50
     THEN error_exit("detected too-high delegate (max. 50)")
     ELSE [status |-> "return", error |-> "", value |-> Some(final_list)]

\* expand_delegate_list(raw_input); raw_input is None or Some(string).
expand_delegate_list(raw_input) ==
  IF raw_input = None
  THEN [status |-> "return", error |-> "", value |-> None]
  ELSE LET r == ExpandItems(split(raw_input[1], ","), 1, <<>>)
       IN IF r.status = "exit" THEN r ELSE CheckLimits(r.value)

\* validate_delegate_list without the upper limit on max_delegates.
validate_delegate_list_NoUpper(delegate_list, max_delegates) ==
  IF delegate_list = None
  THEN [status |-> "return", error |-> "", arg |-> None]
  ELSE IF max_delegates = None \/ max_delegates[1] < 1
  THEN [status |-> "exit", error |-> "Bad number of delegates in yaml",
        arg |-> max_delegates]
  ELSE IF delegate_list[1][Len(delegate_list[1])] > max_delegates[1]
  THEN [status |-> "exit", error |-> "Delegate list exceeds",
        arg |-> max_delegates]
  ELSE [status |-> "return", error |-> "", arg |-> None]

\* Install.validate_delegate_list: delegate_list is args.delegate_list,
\* max_delegates is self.tree()['delegates'] (None or Some(int)).
validate_delegate_list(delegate_list, max_delegates) ==
  IF delegate_list = None
  THEN [status |-> "return", error |-> "", arg |-> None]
  ELSE IF max_delegates = None \/ max_delegates[1] < 1 \/ max_delegates[1] > 50
  THEN [status |-> "exit", error |-> "Bad number of delegates in yaml",
        arg |-> max_delegates]
  ELSE IF delegate_list[1][Len(delegate_list[1])] > max_delegates[1]
  THEN [status |-> "exit", error |-> "Delegate list exceeds",
        arg |-> max_delegates]
  ELSE [status |-> "return", error |-> "", arg |-> None]

\* ------------------------------------------------------------- state

VARIABLES
  cmd,            \* the subcommand of this run
  raw_input,      \* the positional delegate_list argument: None or Some(string)
  pc,             \* "argparse", "run", "loop", "done", "exit" (error_exit), "fault"
  delegate_list,  \* args.delegate_list: None or Some(list of ints)
  error,          \* the message of the error_exit that ended the run, or ""
  error_arg,      \* the value that message is formatted with, or None
  delegates,      \* the 'delegates' value read from the YAML: None or Some(int)
  validated,      \* validate_delegate_list was called and returned
  d,              \* the loop variable of the probe loops
  called,         \* the delegates whose per-delegate operation was called
  subnets         \* the delegates whose subnet exists in the VPC

vars == <<cmd, raw_input, pc, delegate_list, error, error_arg, delegates,
          validated, d, called, subnets>>

\* The subcommands whose parser has cluster_options_parser() as parent, and
\* with it the positional delegate_list.
ClusterCommands == {"install", "delegates", "public-ips"}

\* The values the YAML's 'delegates' can hold in an Install run: missing, or
\* a number from 0 up to one above the largest legal one.
MaxYamlDelegates == 51
YamlDelegates == {None} \cup {Some(n) : n \in 0..MaxYamlDelegates}
ProbeYamlDelegates == {None} \cup {Some(n) : n \in 0..MaxProbeDelegates}

InitRun(commands, inputs, vpc) ==
  /\ cmd \in commands
  /\ raw_input \in inputs
  /\ pc = "argparse"
  /\ delegate_list = None
  /\ error = ""
  /\ error_arg = None
  /\ delegates = None
  /\ validated = FALSE
  /\ d = 0
  /\ called = {}
  /\ subnets \in vpc

\* parse_args(): ParseDelegateList.__call__ stores
\* expand_delegate_list(values) in the namespace.
ParseDelegateList ==
  /\ pc = "argparse"
  /\ cmd \in ClusterCommands
  /\ LET r == expand_delegate_list(raw_input)
     IN /\ delegate_list' = r.value
        /\ error' = r.error
        /\ pc' = CASE r.status = "return" -> "run"
                   [] r.status = "exit" -> "exit"
                   [] OTHER -> "fault"
  /\ UNCHANGED <<cmd, raw_input, error_arg, delegates, validated, d, called,
                 subnets>>

\* Install.run: report_options (logging only), then validate_delegate_list,
\* which reads the YAML's 'delegates' unless the list is None.
InstallRun(yaml) ==
  /\ pc = "run"
  /\ cmd = "install"
  /\ \E max_delegates \in yaml :
       LET r == validate_delegate_list(delegate_list, max_delegates)
       IN /\ delegates' = IF delegate_list = None THEN delegates
                          ELSE max_delegates
          /\ error' = r.error
          /\ error_arg' = r.arg
          /\ validated' = (r.status = "return")
          /\ pc' = IF r.status = "return" THEN "done" ELSE "exit"
  /\ UNCHANGED <<cmd, raw_input, delegate_list, d, called, subnets>>

\* ---------------------------------------------------- handson/probe.py

\* parse_args() of 'probe subnets': its parser has no delegate_list.
ParseSubnetsArgs ==
  /\ pc = "argparse"
  /\ cmd = "subnets"
  /\ pc' = "run"
  /\ UNCHANGED <<cmd, raw_input, delegate_list, error, error_arg, delegates,
                 validated, d, called, subnets>>

\* The head of each probe run(): delegates = stanza('delegates'), then
\* range(0, delegates + 1), a TypeError if the stanza is missing.
ReadDelegates(command, yaml) ==
  /\ pc = "run"
  /\ cmd = command
  /\ \E stanza \in yaml :
       /\ delegates' = stanza
       /\ pc' = IF stanza = None THEN "fault" ELSE "loop"
  /\ d' = 0
  /\ UNCHANGED <<cmd, raw_input, delegate_list, error, error_arg, validated,
                 called, subnets>>

\* The end of a for loop over range(0, delegates + 1).
LoopEnds(command) ==
  /\ pc = "loop"
  /\ cmd = command
  /\ d > delegates[1]
  /\ pc' = "done"
  /\ UNCHANGED <<cmd, raw_input, delegate_list, error, error_arg, delegates,
                 validated, d, called, subnets>>

ProbeDelegatesRun == ReadDelegates("delegates", ProbeYamlDelegates)

\* One iteration: Delegate(self.args, d).probe().
ProbeDelegatesLoop ==
  /\ pc = "loop"
  /\ cmd = "delegates"
  /\ d <= delegates[1]
  /\ called' = called \cup {d}
  /\ d' = d + 1
  /\ UNCHANGED <<cmd, raw_input, pc, delegate_list, error, error_arg,
                 delegates, validated, subnets>>

ProbePublicIPsRun == ReadDelegates("public-ips", ProbeYamlDelegates)

\* What Delegate.public_ips() can return: None or a dict with some of the
\* keys 'admin' and 'windows'.
PublicIPs == {None} \cup {Some(keys) : keys \in SUBSET {"admin", "windows"}}

\* One iteration: Delegate(self.args, d).public_ips() and the prints; the
\* 'windows' print reads public_ips['admin'], a KeyError if that key is absent.
ProbePublicIPsLoop ==
  /\ pc = "loop"
  /\ cmd = "public-ips"
  /\ d <= delegates[1]
  /\ called' = called \cup {d}
  /\ \E public_ips \in PublicIPs :
       IF /\ public_ips # None
          /\ "windows" \in public_ips[1]
          /\ "admin" \notin public_ips[1]
       THEN pc' = "fault" /\ d' = d
       ELSE pc' = pc /\ d' = d + 1
  /\ UNCHANGED <<cmd, raw_input, delegate_list, error, error_arg, delegates,
                 validated, subnets>>

ProbeSubnetsRun == ReadDelegates("subnets", ProbeYamlDelegates)

\* Subnet(args, k).subnet_obj(create): the subnets of the VPC afterwards.  A
\* subnet is created only if it is missing and create is set.
subnet_obj(vpc_subnets, k, create) ==
  IF k \notin vpc_subnets /\ create THEN vpc_subnets \cup {k} ELSE vpc_subnets

\* One iteration: Subnet(self.args, d).subnet_obj(create=False).  With the
\* subnet missing the call either returns without one or ends the run.
ProbeSubnetsLoop ==
  /\ pc = "loop"
  /\ cmd = "subnets"
  /\ d <= delegates[1]
  /\ called' = called \cup {d}
  /\ subnets' = subnet_obj(subnets, d, FALSE)
  /\ \E ends \in BOOLEAN :
       IF d \notin subnets' /\ ends
       THEN pc' = "exit" /\ d' = d
       ELSE pc' = pc /\ d' = d + 1
  /\ UNCHANGED <<cmd, raw_input, delegate_list, error, error_arg, delegates,
                 validated>>

\* ------------------------------------------------------ specifications

\* An Install run on any argument string of up to MaxLen characters.
Init ==
  InitRun({"install"},
          {None} \cup {Some(s) : s \in Strings(MaxLen)},
          {{}})

Next ==
  \/ ParseDelegateList
  \/ InstallRun(YamlDelegates)

Spec == Init /\ [][Next]_vars

\* A run of any of the four subcommands, on shorter argument strings; the
\* VPC of a 'probe subnets' run holds any of the subnets.
CliInit ==
  \/ InitRun(ClusterCommands,
             {None} \cup {Some(s) : s \in Strings(MaxProbeLen)},
             {{}})
  \/ InitRun({"subnets"}, {None}, SUBSET (0..MaxProbeDelegates))

CliNext ==
  \/ ParseDelegateList
  \/ ParseSubnetsArgs
  \/ InstallRun(ProbeYamlDelegates)
  \/ ProbeDelegatesRun
  \/ ProbeDelegatesLoop
  \/ LoopEnds("delegates")
  \/ ProbePublicIPsRun
  \/ ProbePublicIPsLoop
  \/ LoopEnds("public-ips")
  \/ ProbeSubnetsRun
  \/ ProbeSubnetsLoop
  \/ LoopEnds("subnets")

CliSpec == CliInit /\ [][CliNext]_vars

\* ------------------------------------------------------ claim vocabulary

Elements(l) == {l[i] : i \in 1..Len(l)}
Max(S) == CHOOSE m \in S : \A x \in S : x <= m

\* The comma-separated tokens of the argument string.
Tokens == split(raw_input[1], ",")

\* A token that is one integer.
IsSingle(tok) == IsIntLiteral(tok)

\* A token lo-hi: one hyphen with an integer on each side.
IsPairAt(tok, i) ==
  /\ tok[i] = "-"
  /\ IsIntLiteral(SubSeq(tok, 1, i - 1))
  /\ IsIntLiteral(SubSeq(tok, i + 1, Len(tok)))
Lo(tok, i) == int(SubSeq(tok, 1, i - 1))
Hi(tok, i) == int(SubSeq(tok, i + 1, Len(tok)))

\* The tokens the parser is to accept.
Acceptable(tok) ==
  \/ IsSingle(tok)
  \/ \E i \in 1..Len(tok) :
       IsPairAt(tok, i) /\ Hi(tok, i) > Lo(tok, i) /\ Hi(tok, i) - Lo(tok, i) < 50

\* The integers an acceptable token stands for.
Denotes(tok) ==
  IF IsSingle(tok) THEN {int(tok)}
  ELSE LET i == CHOOSE j \in 1..Len(tok) : IsPairAt(tok, j)
       IN Lo(tok, i)..Hi(tok, i)

\* The two error_exit messages of the token loop.
TokenErrors == {"ValueError", "Illegal delegate list"}

\* The parser was called on a string and returned a list.
Returned == raw_input # None /\ delegate_list # None

\* C1: every list the parser returns is in strictly ascending order.
C1_StrictlyAscending ==
  Returned =>
    \A i \in 1..(Len(delegate_list[1]) - 1) :
      delegate_list[1][i] < delegate_list[1][i + 1]

\* C2: every list the parser returns holds only integers of 1..50.
C2_AllInRange ==
  Returned => \A i \in 1..Len(delegate_list[1]) : delegate_list[1][i] \in 1..50

\* C3: the parse fails in the token loop exactly when some token is not a
\* single integer or a pair lo-hi with hi > lo and hi - lo < 50.
C3_TokenAcceptance ==
  (pc # "argparse" /\ raw_input # None) =>
    ((\E k \in 1..Len(Tokens) : ~Acceptable(Tokens[k]))
       <=> (pc = "exit" /\ error \in TokenErrors))

C3_Witness ==
  /\ pc = "exit"
  /\ error = "Illegal delegate list"
  /\ raw_input # None
  /\ \E k \in 1..Len(Tokens) : Acceptable(Tokens[k])
  /\ \E k \in 1..Len(Tokens) :
       \E i \in 1..Len(Tokens[k]) :
         IsPairAt(Tokens[k], i) /\ Hi(Tokens[k], i) = Lo(Tokens[k], i)

\* C6: the integers of a returned list are exactly those its tokens stand for.
C6_ExactUnion ==
  Returned =>
    Elements(delegate_list[1]) = UNION {Denotes(Tokens[k]) : k \in 1..Len(Tokens)}

C6_Witness ==
  /\ Returned
  /\ \E k \in 1..Len(Tokens) : IsSingle(Tokens[k])
  /\ \E k \in 1..Len(Tokens) : ~IsSingle(Tokens[k])
  /\ Cardinality(Elements(delegate_list[1])) >= 6

\* C10: on a string the parser never indexes an empty final_list, a returned
\* list is never empty, and a string of separators only (the empty string
\* included) ends in the invalid-range error.
C10_NeverEmpty ==
  (pc # "argparse" /\ raw_input # None) =>
    /\ pc # "fault"
    /\ (delegate_list # None => Len(delegate_list[1]) > 0)
    /\ ((\A i \in 1..Len(raw_input[1]) : raw_input[1][i] \in {",", "-"})
          => (pc = "exit" /\ error \in TokenErrors))

C10_Witness ==
  /\ pc = "exit"
  /\ raw_input \in {Some(<<>>), Some(<<",">>)}
  /\ error = "ValueError"

\* validate_delegate_list was called with a list (not None) and has ended.
ValidateEnded == cmd = "install" /\ delegate_list # None /\ pc \in {"done", "exit"}

\* C4: with a valid bound, validation ends in the delegate-range-exceeded
\* error naming the bound whenever the list's maximum is above the bound, and
\* succeeds only if every element is <= the bound.
C4_RangeExceeded ==
  (ValidateEnded /\ delegates # None /\ delegates[1] \in 1..50) =>
    /\ (Max(Elements(delegate_list[1])) > delegates[1] =>
          (pc = "exit" /\ error = "Delegate list exceeds" /\ error_arg = delegates))
    /\ (pc = "done" => \A x \in Elements(delegate_list[1]) : x <= delegates[1])

\* C5: with a bound that is missing, below 1 or above 50, validation ends in
\* the configuration error, whatever the list holds.
C5_BadBound ==
  (ValidateEnded /\ (delegates = None \/ delegates[1] < 1 \/ delegates[1] > 50)) =>
    (pc = "exit" /\ error = "Bad number of delegates in yaml"
       /\ error # "Delegate list exceeds")

C5_Witness ==
  /\ ValidateEnded
  /\ delegates = Some(0)
  /\ delegate_list[1][Len(delegate_list[1])] > 0
  /\ error = "Bad number of delegates in yaml"

\* str(n) for n >= 0: its decimal digits.
DigitChar(n) ==
  CASE n = 0 -> "0" [] n = 1 -> "1" [] n = 2 -> "2" [] n = 3 -> "3"
    [] n = 4 -> "4" [] n = 5 -> "5" [] n = 6 -> "6" [] n = 7 -> "7"
    [] n = 8 -> "8" [] n = 9 -> "9"

RECURSIVE str(_)
str(n) == IF n < 10 THEN <<DigitChar(n)>>
          ELSE str(n \div 10) \o <<DigitChar(n % 10)>>

\* ','.join(str(x) for x in l)
RECURSIVE JoinFrom(_, _)
JoinFrom(l, k) ==
  IF k > Len(l) THEN <<>>
  ELSE IF k = Len(l) THEN str(l[k])
  ELSE str(l[k]) \o <<",">> \o JoinFrom(l, k + 1)

\* The elements of a returned list in ascending order, written as single
\* integers separated by commas.
Stringified(l) == JoinFrom(sorted(l), 1)

\* C7: parsing the stringified form of a returned list succeeds and returns
\* the same set of integers.
C7_RoundTrip ==
  Returned =>
    LET again == expand_delegate_list(Some(Stringified(delegate_list[1])))
    IN /\ again.status = "return"
       /\ again.value # None
       /\ Elements(again.value[1]) = Elements(delegate_list[1])

C7_Witness ==
  /\ Returned
  /\ Len(delegate_list[1]) >= 3
  /\ Stringified(delegate_list[1]) # raw_input[1]

\* C8: no per-delegate operation is called in a run whose delegate list
\* (not None) was not validated, or has a maximum above the configured bound.
C8_ValidatedBeforeDispatch ==
  (cmd \in ClusterCommands /\ called # {} /\ delegate_list # None) =>
    /\ validated
    /\ delegates # None
    /\ Max(Elements(delegate_list[1])) <= delegates[1]

\* C9: 'probe subnets' creates a missing subnet: every subnet it has probed
\* exists, and after the run all of the subnets 0..delegates exist.
C9_SubnetsCreated ==
  cmd = "subnets" =>
    /\ called \subseteq subnets
    /\ (pc = "done" => \A k \in 0..delegates[1] : k \in subnets)

====
